---- MODULE Spec2Model ----
(***************************************************************************)
(* Lunar Lander (src/main.cpp): the fixed-timestep game loop, the input    *)
(* mapper and the main loop, with the player entity's step.                *)
(*                                                                         *)
(* Time.  Every `float` holding seconds is represented by an integer       *)
(* number of units of 2^-30 s.  All values that occur are IEEE-754         *)
(* binary32 values that are whole multiples of that unit, and every float  *)
(* operation of the source (+, -, /) is modelled with binary32 rounding    *)
(* (round to nearest, ties to even): FRound, FAdd, FSub, TicksToSeconds.   *)
(*                                                                         *)
(* Entity.  Entity.h / Entity.cpp are not part of the available sources;   *)
(* Entity::update is modelled from the design description (kinematics      *)
(* steps 1-4 and the first-match collision scan), in fixed point with      *)
(* positions in 1e-4 world units and velocities in 1e-4 units per second.  *)
(***************************************************************************)
EXTENDS Integers, Sequences, FiniteSets

\* ------------------------------------------------------------------ bounds

\* Frames (iterations of main's while loop) explored.
MaxFrames == 2

\* SDL_GetTicks() never exceeds this many milliseconds in an explored run.
MaxMs == 1300

\* Events waiting in the SDL queue when process_input polls it.
MaxEvents == 1

\* Direct calls of game_loop made by the test driver (SpecLoop).
MaxCalls == 3

\* --------------------------------------------------------------- constants

\* #define FIXED_TIMESTEP 0.0166666f: the binary32 value, in units of 2^-30 s.
FIXED_TIMESTEP == 17895626

\* #define ACC_OF_GRAVITY -1.62f, in 1e-2 world units per second squared.
ACC_OF_GRAVITY == -162

\* #define PLATFORM_COUNT 9
PLATFORM_COUNT == 9

\* set_speed(2.0f)
PLAYER_SPEED == 2

\* m_boosting_power = 0.1f, in 1e-4 units per second.
BOOSTING_POWER == 1000

\* m_drag = 0.8f, in tenths.
DRAG == 8

\* set_height(0.8f) / set_width(0.8f), in 1e-4 units.
PLAYER_SIZE == 8000

\* set_position(glm::vec3(0.0f, 3.0f, 0.0f)): the player's initial height.
PLAYER_START_Y == 30000

\* const float MILLISECONDS_IN_SECOND = 1000.0
MILLISECONDS_IN_SECOND == 1000

\* One world unit in fixed point.
WorldUnit == 10 ^ 4

\* Width and height of a platform: Entity's default extents (1.0), which
\* main.cpp never overrides for platforms.
PLATFORM_SIZE == WorldUnit

\* -------------------------------------------------------- binary32 floats

RECURSIVE Ulp(_)
\* The spacing of binary32 values around x >= 0 (x in units of 2^-30 s):
\* 24 significant bits.
Ulp(x) == IF x < 16777216 THEN 1 ELSE 2 * Ulp(x \div 2)

\* x rounded to binary32: to nearest, ties to the even significand.
FRound(x) ==
    LET q == Ulp(x)
        r == x % q
        lo == x - r
    IN  IF 2 * r < q THEN lo
        ELSE IF 2 * r > q THEN lo + q
        ELSE IF (lo \div q) % 2 = 0 THEN lo ELSE lo + q

\* float + float
FAdd(a, b) == FRound(a + b)

\* float - float, for a >= b
FSub(a, b) == FRound(a - b)

RECURSIVE Binade(_, _)
\* The least j with ms * 2^j >= 1000: ms / 1000 lies in [2^-j, 2^(1-j)).
Binade(ms, j) == IF ms >= MILLISECONDS_IN_SECOND THEN j ELSE Binade(2 * ms, j + 1)

\* (float)SDL_GetTicks() / MILLISECONDS_IN_SECOND: the binary32 quotient of
\* ms by 1000, in units of 2^-30 s.  Defined for ms = 0 and 8 <= ms < 2000,
\* where the quotient is a whole number of units.  The significand is
\* ms * 2^(23+j) / 1000 = ms * 2^(20+j) / 125 rounded to nearest (125 is odd,
\* so there are no ties).
TicksToSeconds(ms) ==
    IF ms = 0 THEN 0
    ELSE LET j == Binade(ms, 0)
             n == ms * 2^(20 + j)
             m == (n \div 125) + (IF 2 * (n % 125) > 125 THEN 1 ELSE 0)
         IN  m * 2^(7 - j)

\* ------------------------------------------------------------------ state

VARIABLES
    pc,                  \* main's position: loop_test, process_input, update, render, done
    now,                 \* SDL_GetTicks(): milliseconds since SDL_Init
    frames,              \* iterations of the driving loop started so far
    g_game_is_running,
    g_win,
    g_loss,
    g_previous_ticks,    \* float seconds, in units of 2^-30 s
    g_time_accumulator,  \* float seconds, in units of 2^-30 s
    player,              \* g_game_state.player
    platforms,           \* g_game_state.platforms
    key_state,           \* the SDL_GetKeyboardState snapshot process_input read
    polled,              \* the events process_input drained from the SDL queue
    screen_text,         \* the overlays drawn by the last render()
    shutdown_calls,      \* history: calls of shutdown()
    nsteps,              \* history: calls of player->update made by game_loop
    fed,                 \* history: exact sum of the deltas passed to game_loop
    exact,               \* history: no float operation of game_loop has rounded
    last_call,           \* history: the state in which game_loop was last entered
    last_step,           \* history: the last call of player->update by game_loop
    delta_time,          \* game_loop's local delta_time while in its while loop
    caller               \* where game_loop returns to

vars == <<pc, now, frames, g_game_is_running, g_win, g_loss, g_previous_ticks,
          g_time_accumulator, player, platforms, key_state, polled, screen_text,
          shutdown_calls, nsteps, fed, exact, last_call, last_step, delta_time,
          caller>>

\* ----------------------------------------------------------------- inputs

\* Milliseconds that pass between two reads of SDL_GetTicks(): a 60 Hz
\* frame, a 30 Hz frame, and a long stall (the first frame's delta covers
\* all of initialise(), since g_previous_ticks starts at 0).
Advances == {17, 34, 1200}

\* The scancodes process_input looks at.
Scancodes == {"UP", "W", "LEFT", "A", "RIGHT", "D"}

\* Keyboard snapshots: nothing held, each key alone, and conflicting holds.
KeyStates ==
    {{}} \cup {{k} : k \in Scancodes}
         \cup {{"UP", "LEFT"}, {"W", "D"}, {"LEFT", "RIGHT"}, {"A", "D"},
               {"UP", "LEFT", "RIGHT"}, Scancodes}

\* Events the SDL queue can deliver.
EventKinds ==
    { [type |-> "SDL_QUIT", sym |-> ""],
      [type |-> "SDL_KEYDOWN", sym |-> "q"],
      [type |-> "SDL_KEYDOWN", sym |-> "w"],
      [type |-> "SDL_WINDOWEVENT", sym |-> ""] }

RECURSIVE SeqsUpTo(_, _)
SeqsUpTo(S, n) ==
    IF n = 0 THEN {<<>>}
    ELSE LET shorter == SeqsUpTo(S, n - 1)
         IN  shorter \cup {Append(q, e) : q \in shorter, e \in S}

EventQueues == SeqsUpTo(EventKinds, MaxEvents)

\* Deltas the test driver passes to game_loop directly: binary32 values in
\* units of 2^-30 s (0, about 1 ms, one step less that, one step, two steps,
\* and one second).
Deltas == {0, 1048576, FIXED_TIMESTEP - 1048576, FIXED_TIMESTEP,
           2 * FIXED_TIMESTEP, 1073741824}

\* ----------------------------------------------------------------- Entity

Abs(n) == IF n < 0 THEN -n ELSE n

\* Integer quotient rounded toward zero.
Quot(n, d) == IF n >= 0 THEN n \div d ELSE -((-n) \div d)

\* dt (units of 2^-30 s) in microseconds: 10^6 / 2^30 = 15625 / 2^24.
Micros(dt) == ((dt \div 1024) * 15625) \div 16384

\* Axis-aligned bounding-box overlap of the player with one platform.
Overlaps(p, pl) ==
    /\ 2 * Abs(p.x - pl.x) < PLAYER_SIZE + PLATFORM_SIZE
    /\ 2 * Abs(p.y - pl.y) < PLAYER_SIZE + PLATFORM_SIZE

RECURSIVE ScanAll(_, _, _, _)
\* A scan that does not stop at the first overlap: the last overlapping
\* platform, or -1.
ScanAll(p, pls, i, count) ==
    IF i >= count THEN -1
    ELSE LET rest == ScanAll(p, pls, i + 1, count)
         IN  IF rest # -1 THEN rest
             ELSE IF Overlaps(p, pls[i]) THEN i ELSE -1

RECURSIVE Scan(_, _, _, _)
\* Platforms are tested in array order from index i; the first overlapping
\* one decides.  -1: none overlaps.
Scan(p, pls, i, count) ==
    IF i >= count THEN -1
    ELSE IF Overlaps(p, pls[i]) THEN i
    ELSE Scan(p, pls, i + 1, count)

\* Entity::update for the player: one physics step of dt.
\*   1. velocity += acceleration * h          (gravity, vertical)
\*   2. booster active: a fixed upward impulse
\*   3. drag attenuates the lateral velocity, which follows the movement intent
\*   4. position += velocity * speed * h
\*   collision: first overlapping platform sets won or loss; nothing is cleared,
\*   and the entity does not lock itself once a flag is set.
EntityUpdate(p, dt, pls, count, won, loss) ==
    LET h  == Micros(dt)
        vy == p.vy + Quot(ACC_OF_GRAVITY * h, 10000)
                   + (IF p.m_booster_active THEN BOOSTING_POWER ELSE 0)
        vx == Quot(p.m_movement * WorldUnit * DRAG, 10)
        q  == [p EXCEPT !.vx = vx, !.vy = vy,
                        !.x = p.x + Quot(vx * PLAYER_SPEED * h, 1000000),
                        !.y = p.y + Quot(vy * PLAYER_SPEED * h, 1000000)]
        hit == Scan(q, pls, 0, count)
    IN  [player |-> q,
         won  |-> won  \/ (hit # -1 /\ pls[hit].type = "WIN_PLATFORM"),
         loss |-> loss \/ (hit # -1 /\ pls[hit].type = "DEATH_PLATFORM")]

\* -------------------------------------------------------------- game_loop

\* delta_time += g_time_accumulator, without the accumulator: the leftover
\* of the previous frame is lost.
AccumulateDropped(delta, acc) == delta

\* delta_time += g_time_accumulator
Accumulate(delta, acc) == FAdd(delta, acc)

\* The loop condition written with > : a frame of exactly one step runs none.
StepDueStrict(dt) == dt > FIXED_TIMESTEP

\* while (delta_time >= FIXED_TIMESTEP)
StepDue(dt) == dt >= FIXED_TIMESTEP

\* The early return that forgets to store the accumulated time.
EarlyLeftoverLost(dt) == g_time_accumulator

\* if (delta_time < FIXED_TIMESTEP) { g_time_accumulator = delta_time; return; }
EarlyLeftover(dt) == dt

\* game_loop(delta) is entered from `from`: steps 1 and 2, and the first test
\* of the while condition.  Either it returns at once, storing the
\* accumulated time, or it enters the while loop (a loop whose condition
\* fails at once stores the time after it and returns).
EnterGameLoop(delta, from) ==
    LET dt == Accumulate(delta, g_time_accumulator)
    IN  /\ last_call' = [called |-> TRUE, delta |-> delta,
                         acc |-> g_time_accumulator, nsteps |-> nsteps,
                         player |-> player, won |-> g_win, loss |-> g_loss]
        /\ fed' = fed + delta
        /\ exact' = (exact /\ FAdd(delta, g_time_accumulator)
                                 = delta + g_time_accumulator)
        /\ caller' = from
        /\ IF dt < FIXED_TIMESTEP
           THEN /\ g_time_accumulator' = EarlyLeftover(dt)
                /\ delta_time' = 0
                /\ pc' = from
           ELSE IF StepDue(dt)
           THEN /\ g_time_accumulator' = g_time_accumulator
                /\ delta_time' = dt
                /\ pc' = "while"
           ELSE /\ g_time_accumulator' = dt
                /\ delta_time' = 0
                /\ pc' = from
        /\ UNCHANGED <<player, g_win, g_loss, nsteps, last_step>>

\* player->update(FIXED_TIMESTEP, ...): the step size does not depend on the
\* remaining delta_time.
StepSize(dt) == FIXED_TIMESTEP

\* One iteration of the while loop (step 3): the player is updated by
\* FIXED_TIMESTEP and the step is taken off delta_time.  When the loop
\* condition then fails, the leftover is stored and game_loop returns.
Step ==
    /\ pc = "while"
    /\ LET h  == StepSize(delta_time)
           r  == EntityUpdate(player, h, platforms, PLATFORM_COUNT, g_win, g_loss)
           dt == FSub(delta_time, FIXED_TIMESTEP)
       IN  /\ player' = r.player
           /\ g_win' = r.won
           /\ g_loss' = r.loss
           /\ nsteps' = nsteps + 1
           /\ last_step' = [dt |-> h, won_before |-> g_win, loss_before |-> g_loss]
           /\ exact' = (exact /\ dt = delta_time - FIXED_TIMESTEP)
           /\ IF StepDue(dt)
              THEN /\ delta_time' = dt
                   /\ pc' = "while"
                   /\ UNCHANGED g_time_accumulator
              ELSE /\ delta_time' = 0
                   /\ g_time_accumulator' = dt
                   /\ pc' = caller
    /\ UNCHANGED <<now, frames, g_game_is_running, g_previous_ticks, platforms,
                   key_state, polled, screen_text, shutdown_calls, fed, last_call,
                   caller>>

\* ------------------------------------------------------------- initialise

\* The platform fields explored.  initialise() puts platform i at x = i - 4,
\* at a random integer height in -3..1 and of a random type.  Of the
\* platforms the player can reach in an explored run, 4 (right below the
\* start) is a win platform at height 1, 5 and 6 take every type, and 5 two
\* heights; the others are death platforms at height -3.
Layouts ==
    { [i \in 0..(PLATFORM_COUNT - 1) |->
          [type |-> IF i \in W \cup {4} THEN "WIN_PLATFORM" ELSE "DEATH_PLATFORM",
           x |-> (i - 4) * WorldUnit,
           y |-> (IF i \in {4, 6} THEN 1 ELSE IF i = 5 THEN y5 ELSE -3) * WorldUnit]]
      : W \in SUBSET {5, 6}, y5 \in {0, 1} }

\* The state initialise() leaves, before main's loop is entered.  The
\* velocity and m_booster_active are not set by initialise(): they have
\* Entity's defaults (zero, false).
Initialised ==
    /\ now = 0
    /\ frames = 0
    /\ g_game_is_running = TRUE
    /\ g_win = FALSE
    /\ g_loss = FALSE
    /\ g_previous_ticks = 0
    /\ g_time_accumulator = 0
    /\ player = [x |-> 0, y |-> PLAYER_START_Y, vx |-> 0, vy |-> 0,
                 m_movement |-> 0, m_booster_active |-> FALSE]
    /\ platforms \in Layouts
    /\ key_state = {}
    /\ polled = <<>>
    /\ screen_text = {}
    /\ shutdown_calls = 0
    /\ nsteps = 0
    /\ fed = 0
    /\ exact = TRUE
    /\ last_call = [called |-> FALSE, delta |-> 0, acc |-> 0, nsteps |-> 0,
                    player |-> player, won |-> FALSE, loss |-> FALSE]
    /\ last_step = [dt |-> 0, won_before |-> FALSE, loss_before |-> FALSE]
    /\ delta_time = 0
    /\ caller = "render"

Init == Initialised /\ pc = "loop_test"

\* ---------------------------------------------------------- process_input

\* An event that ends the game: SDL_QUIT, or the q key going down.  (The
\* case label SDL_WINDOWEVENT_CLOSE is a window-event id, not an event type.)
Quits(e) ==
    \/ e.type = "SDL_QUIT"
    \/ e.type = "SDL_WINDOWEVENT_CLOSE"
    \/ (e.type = "SDL_KEYDOWN" /\ e.sym = "q")

\* The key test written as three independent ifs: thrust and steering combine.
KeyIntentIndependent(ks) ==
    [m_booster_active |-> ks \cap {"UP", "W"} # {},
     m_movement |-> IF ks \cap {"RIGHT", "D"} # {} THEN 1
                    ELSE IF ks \cap {"LEFT", "A"} # {} THEN -1 ELSE 0]

\* The else-if chain over the keyboard snapshot: up sets m_booster_active,
\* else left calls move_left() (movement.x = -1), else right calls
\* move_right() (movement.x = 1).
KeyIntent(ks) ==
    IF ks \cap {"UP", "W"} # {}
    THEN [m_booster_active |-> TRUE, m_movement |-> 0]
    ELSE IF ks \cap {"LEFT", "A"} # {}
    THEN [m_booster_active |-> FALSE, m_movement |-> -1]
    ELSE IF ks \cap {"RIGHT", "D"} # {}
    THEN [m_booster_active |-> FALSE, m_movement |-> 1]
    ELSE [m_booster_active |-> FALSE, m_movement |-> 0]

\* if (glm::length(movement) > 1.0f) movement = glm::normalize(movement)
Normalised(m) == IF Abs(m) > 1 THEN (IF m > 0 THEN 1 ELSE -1) ELSE m

\* Where main goes after process_input when it tests the flag right away.
AfterInputEarlyExit(running) == IF running THEN "update" ELSE "loop_test"

\* main calls update() after process_input(), whatever the flag.
AfterInput(running) == "update"

ProcessInput ==
    /\ pc = "process_input"
    /\ \E ks \in KeyStates, evs \in EventQueues :
          LET intent == KeyIntent(ks)
              running == g_game_is_running
                         /\ \A i \in 1..Len(evs) : ~Quits(evs[i])
          IN  /\ player' = [player EXCEPT
                               !.m_movement = Normalised(intent.m_movement),
                               !.m_booster_active = intent.m_booster_active]
              /\ g_game_is_running' = running
              /\ key_state' = ks
              /\ polled' = evs
              /\ pc' = AfterInput(running)
    /\ UNCHANGED <<now, frames, g_win, g_loss, g_previous_ticks, g_time_accumulator,
                   platforms, screen_text, shutdown_calls, nsteps, fed, exact,
                   last_call, last_step, delta_time, caller>>

\* ------------------------------------------------------------------ update

\* The guard with the loss flag forgotten.
SimulationEnabledWinOnly == ~g_win

\* if (!g_win && !g_loss)
SimulationEnabled == ~g_win /\ ~g_loss

\* update() that starts the round again once it has ended.
FlagsKeptRestart(flag) == FALSE

\* update() leaves a terminal flag as it is when it skips the simulation.
FlagsKept(flag) == flag

Update ==
    /\ pc = "update"
    /\ \E adv \in Advances :
          /\ now + adv <= MaxMs
          /\ now' = now + adv
          /\ LET ticks == TicksToSeconds(now + adv)
                 delta == FSub(ticks, g_previous_ticks)
             IN  /\ g_previous_ticks' = ticks
                 /\ IF SimulationEnabled
                    THEN EnterGameLoop(delta, "render")
                    ELSE /\ g_win' = FlagsKept(g_win)
                         /\ g_loss' = FlagsKept(g_loss)
                         /\ last_call' = [last_call EXCEPT !.called = FALSE]
                         /\ pc' = "render"
                         /\ UNCHANGED <<player, g_time_accumulator, nsteps, fed,
                                        exact, last_step, delta_time, caller>>
    \* key_state and event are locals of process_input: gone once it returned.
    /\ key_state' = {}
    /\ polled' = <<>>
    /\ UNCHANGED <<frames, g_game_is_running, platforms, screen_text, shutdown_calls>>

\* ------------------------------------------------------------------ render

\* The overlays render() draws.
Overlays ==
    (IF g_win THEN {"YOU LANDED SAFELY!"} ELSE {})
    \cup (IF g_loss THEN {"YOU CRASHED!"} ELSE {})

Render ==
    /\ pc = "render"
    /\ screen_text' = Overlays
    /\ pc' = "loop_test"
    /\ UNCHANGED <<now, frames, g_game_is_running, g_win, g_loss, g_previous_ticks,
                   g_time_accumulator, player, platforms, key_state, polled,
                   shutdown_calls, nsteps, fed, exact, last_call, last_step,
                   delta_time, caller>>

\* -------------------------------------------------------------------- main

\* while (g_game_is_running): the test succeeds and a frame starts.
EnterFrame ==
    /\ pc = "loop_test"
    /\ g_game_is_running
    /\ frames < MaxFrames
    /\ frames' = frames + 1
    /\ pc' = "process_input"
    /\ UNCHANGED <<now, g_game_is_running, g_win, g_loss, g_previous_ticks,
                   g_time_accumulator, player, platforms, key_state, polled,
                   screen_text, shutdown_calls, nsteps, fed, exact, last_call,
                   last_step, delta_time, caller>>

\* The test fails: shutdown(); return 0.
Shutdown ==
    /\ pc = "loop_test"
    /\ ~g_game_is_running
    /\ shutdown_calls' = shutdown_calls + 1
    /\ pc' = "done"
    /\ UNCHANGED <<now, frames, g_game_is_running, g_win, g_loss, g_previous_ticks,
                   g_time_accumulator, player, platforms, key_state, polled,
                   screen_text, nsteps, fed, exact, last_call, last_step,
                   delta_time, caller>>

Next == EnterFrame \/ ProcessInput \/ Update \/ Step \/ Render \/ Shutdown

Spec == Init /\ [][Next]_vars

\* ------------------------------------------------- game_loop driven directly

\* The test driver: game_loop called with chosen deltas on the initialised
\* session, the input intent left as constructed.
InitLoop == Initialised /\ pc = "driver"

CallGameLoop ==
    /\ pc = "driver"
    /\ frames < MaxCalls
    /\ \E d \in Deltas :
          /\ d <= MaxMs * 1048576 - fed
          /\ EnterGameLoop(d, "driver")
    /\ frames' = frames + 1
    /\ UNCHANGED <<now, g_game_is_running, g_previous_ticks, platforms,
                   key_state, polled, screen_text, shutdown_calls>>

NextLoop == CallGameLoop \/ Step

SpecLoop == InitLoop /\ [][NextLoop]_vars

\* ------------------------------------------------------------------ claims

Terminal == g_win \/ g_loss

\* The player's position and velocity.
Kinematics(p) == <<p.x, p.y, p.vx, p.vy>>

\* The platforms of the session that overlap p.
OverlapSet(p) == {i \in 0..(PLATFORM_COUNT - 1) : Overlaps(p, platforms[i])}

\* The least element of a non-empty set of indexes.
Lowest(S) == CHOOSE i \in S : \A j \in S : i <= j

\* C1: once g_win or g_loss is true no further physics step is invoked, the
\* remaining iterations of the same game_loop call included: no call of
\* player->update is ever entered with a terminal flag already set.
C1_NoStepOnceTerminal == ~last_step.won_before /\ ~last_step.loss_before

\* C2: a call of update() made with g_win or g_loss already true leaves the
\* player's position and velocity, g_time_accumulator, g_win and g_loss as
\* they were and runs no physics step, whatever the wall-clock delta.
C2_TerminalFreeze ==
    [][(pc = "update" /\ Terminal) =>
          /\ Kinematics(player') = Kinematics(player)
          /\ g_time_accumulator' = g_time_accumulator
          /\ g_win' = g_win
          /\ g_loss' = g_loss
          /\ nsteps' = nsteps
          /\ pc' = "render"]_vars

\* update() has just returned from a call made in a terminal state, at a
\* later clock reading than the frame that set the flag.
C2_Witness ==
    /\ pc = "render"
    /\ Terminal
    /\ ~last_call.called
    /\ nsteps > 0
    /\ frames >= 2

C4_ExactlyOneStepAtBoundary ==
    (pc = "driver" /\ last_call.called
       /\ last_call.acc + last_call.delta = FIXED_TIMESTEP) =>
        /\ nsteps = last_call.nsteps + 1
        /\ g_time_accumulator = 0
        /\ player = EntityUpdate(last_call.player, FIXED_TIMESTEP, platforms,
                                 PLATFORM_COUNT, last_call.won, last_call.loss).player

\* game_loop has returned from a call whose delta completed a non-zero
\* accumulator to exactly one step.
C4_Witness ==
    /\ pc = "driver"
    /\ last_call.called
    /\ last_call.acc > 0
    /\ last_call.delta > 0
    /\ last_call.acc + last_call.delta = FIXED_TIMESTEP

\* C5: game_loop called with a zero delta runs no step and leaves the player,
\* g_time_accumulator, g_win and g_loss unchanged; and whenever the float sum
\* accumulator + delta is below FIXED_TIMESTEP no step runs and the only
\* change is accumulator := accumulator + delta.
C5_NoStepBelowOneTimestep ==
    (pc = "driver" /\ last_call.called) =>
        /\ FAdd(last_call.delta, last_call.acc) < FIXED_TIMESTEP =>
              /\ nsteps = last_call.nsteps
              /\ player = last_call.player
              /\ g_win = last_call.won
              /\ g_loss = last_call.loss
              /\ g_time_accumulator = FAdd(last_call.delta, last_call.acc)
        /\ last_call.delta = 0 =>
              /\ nsteps = last_call.nsteps
              /\ player = last_call.player
              /\ g_win = last_call.won
              /\ g_loss = last_call.loss
              /\ g_time_accumulator = last_call.acc

\* game_loop has returned from a call with a positive delta that stayed
\* below one step on top of a non-zero accumulator, after steps had run.
C5_Witness ==
    /\ pc = "driver"
    /\ last_call.called
    /\ last_call.delta > 0
    /\ last_call.acc > 0
    /\ last_call.delta + last_call.acc < FIXED_TIMESTEP
    /\ nsteps > 0

\* C6: the terminal flags are monotonic: no operation of a frame resets
\* g_win or g_loss to false once it is true.
C6_FlagsMonotonic ==
    [][(g_win => g_win') /\ (g_loss => g_loss')]_vars

\* The process has exited after a frame that ran with a terminal flag set,
\* and the flag is still set.
C6_Witness ==
    /\ pc = "done"
    /\ Terminal
    /\ frames = 2
    /\ ~last_call.called

\* C7: collision precedence is first-match-wins in array order: a physics
\* step sets the flag of the lowest-index platform the player overlaps after
\* the step, and no other; with no overlap it sets none.
C7_FirstMatchWins ==
    [][nsteps' = nsteps + 1 =>
          LET O == OverlapSet(player')
              first == platforms[Lowest(O)].type
          IN  /\ g_win' = (g_win \/ (O # {} /\ first = "WIN_PLATFORM"))
              /\ g_loss' = (g_loss \/ (O # {} /\ first = "DEATH_PLATFORM"))]_vars

\* A step entered with both flags false has left the player overlapping a
\* death platform and a win platform of higher index, with loss set and won
\* not.
C7_Witness ==
    /\ last_step.dt = FIXED_TIMESTEP
    /\ ~last_step.won_before
    /\ ~last_step.loss_before
    /\ g_loss
    /\ ~g_win
    /\ \E i, j \in OverlapSet(player) :
          /\ i < j
          /\ platforms[i].type = "DEATH_PLATFORM"
          /\ platforms[j].type = "WIN_PLATFORM"

\* C8: after every process_input call thrust and lateral steering are never
\* both set; the intent is rebuilt from the keys held: up (UP or W) gives
\* the booster and no movement, otherwise left (LEFT or A) gives -1,
\* otherwise right (RIGHT or D) gives +1, and nothing held gives zero
\* movement and an inactive booster.
C8_ThrustSteerExclusive ==
    /\ ~(player.m_booster_active /\ player.m_movement # 0)
    /\ pc = "update" =>
          LET up    == "UP" \in key_state \/ "W" \in key_state
              left  == "LEFT" \in key_state \/ "A" \in key_state
              right == "RIGHT" \in key_state \/ "D" \in key_state
          IN  /\ player.m_booster_active = up
              /\ up => player.m_movement = 0
              /\ (~up /\ left) => player.m_movement = -1
              /\ (~up /\ ~left /\ right) => player.m_movement = 1
              /\ (~up /\ ~left /\ ~right) => player.m_movement = 0

\* process_input has just run with up, left and right all held.
C8_Witness ==
    /\ pc = "update"
    /\ key_state = {"UP", "LEFT", "RIGHT"}
    /\ player.m_booster_active
    /\ player.m_movement = 0

\* C9: exit is not immediate.  process_input only clears g_game_is_running
\* (exactly when it polled a quit event or the q key) and goes on to
\* update(); update, every fixed step due, and render run whatever the flag;
\* the flag is looked at only at the loop test, where false leads to
\* shutdown, after which nothing runs; shutdown runs once; the flag never
\* returns to true.
C9_ExitAtFrameBoundary ==
    [][/\ pc = "process_input" =>
             /\ pc' = "update"
             /\ g_game_is_running' =
                   (g_game_is_running /\ \A i \in 1..Len(polled') : ~Quits(polled'[i]))
             /\ Kinematics(player') = Kinematics(player)
             /\ UNCHANGED <<g_win, g_loss, g_time_accumulator, nsteps, shutdown_calls>>
       /\ pc = "update" => pc' \in {"while", "render"}
       /\ pc = "while" =>
             /\ nsteps' = nsteps + 1
             /\ pc' = IF StepDue(delta_time') THEN "while" ELSE "render"
       /\ pc = "render" => pc' = "loop_test"
       /\ (pc = "loop_test" /\ ~g_game_is_running) =>
             (pc' = "done" /\ shutdown_calls' = 1)
       /\ pc' = "done" => (pc = "loop_test" /\ ~g_game_is_running)
       /\ pc # "done"
       /\ shutdown_calls' <= 1
       /\ ~g_game_is_running => ~g_game_is_running'
       /\ pc # "loop_test" => UNCHANGED shutdown_calls]_vars

\* The process has shut down after its first frame, in which the quit was
\* polled and the update still ran physics steps.
C9_Witness ==
    /\ pc = "done"
    /\ shutdown_calls = 1
    /\ ~g_game_is_running
    /\ frames = 1
    /\ nsteps >= 2
    /\ screen_text = Overlays

\* C10: g_win and g_loss are never both true, and render never shows both
\* overlays.
C10_OutcomesExclusive ==
    /\ ~(g_win /\ g_loss)
    /\ Cardinality(screen_text) <= 1

====
